---- MODULE Spec2Model ----
(***************************************************************************)
(* The file-state store (FilesStore) and the file tree view (FileTree) of  *)
(* the workbench.  Strings are sequences of one-character strings, so that *)
(* startsWith, includes, split and replace are computed character by       *)
(* character as the JavaScript does.                                       *)
(***************************************************************************)
EXTENDS Integers, Sequences, FiniteSets, TLC

VARIABLES
  files,            \* FilesStore.#files: ordered <<[path, dirent]>> (insertion order of the keys)
  size,             \* FilesStore.#size
  modifiedFiles,    \* FilesStore.#modifiedFiles: path -> snapshot
  lockedFiles,      \* FilesStore.#lockedFiles: path -> BOOLEAN
  webcontainer,     \* the promise handed to the FilesStore: "pending", "resolved" or "rejected"
  pending,          \* the saveFile calls in progress, each with the await it is suspended on
  applied,          \* history: the change events applied so far, in order
  buffered,         \* bufferWatchEvents: the watcher calls waiting for the next tick
  emitted,          \* history: the change events the watch feed has emitted, in order
  saves,            \* history: the number of saveFile calls made so far
  firstOld,         \* history: per path, the content it had just before the first successful save since the last reset
  rootFolder,       \* FileTree prop
  hideRoot,         \* FileTree prop
  onFileSelect,     \* FileTree prop: TRUE when a callback is given
  hiddenFiles,      \* the patterns handed to buildFileList (FileTree: computedHiddenFiles)
  collapsed,        \* FileTree prop: the external collapsed list
  collapsedFolders, \* FileTree state
  fileList,         \* FileTree memo: buildFileList(...)
  filteredFileList, \* FileTree memo
  isLocked,         \* File: per rendered file, the isLocked its last render computed
  mounted,          \* FileTree has rendered at least once
  dirty,            \* a render of FileTree is scheduled
  effect,           \* the effect of the last render waits to run: the values that render captured
  last              \* history: the operation that acted last

vars == <<files, size, modifiedFiles, lockedFiles, webcontainer, pending, applied,
          buffered, emitted, saves, firstOld,
          rootFolder, hideRoot, onFileSelect, hiddenFiles, collapsed, collapsedFolders,
          fileList, filteredFileList, isLocked, mounted, dirty, effect, last>>

storeVars == <<files, size, modifiedFiles, lockedFiles, webcontainer, pending, applied, saves,
               firstOld>>
feedVars == <<buffered, emitted>>
viewVars == <<rootFolder, hideRoot, onFileSelect, hiddenFiles, collapsed, collapsedFolders,
              fileList, filteredFileList, isLocked, mounted, dirty, effect>>

(***************************************************************************)
(* Bounds                                                                  *)
(***************************************************************************)
MaxEvents == 3
MaxSaves == 2
MaxEntries == 3

(***************************************************************************)
(* Strings                                                                 *)
(***************************************************************************)
None == <<>>
Some(v) == <<v>>

StartsWith(s, p) == Len(p) <= Len(s) /\ SubSeq(s, 1, Len(p)) = p

Includes(s, sub) ==
  \E i \in 1..(Len(s) + 1) : i + Len(sub) - 1 <= Len(s) /\ SubSeq(s, i, i + Len(sub) - 1) = sub

RECURSIVE StripTrailingSlashes(_)
StripTrailingSlashes(s) ==
  IF s # <<>> /\ s[Len(s)] = "/" THEN StripTrailingSlashes(SubSeq(s, 1, Len(s) - 1)) ELSE s

RECURSIVE SplitSlash(_, _)
SplitSlash(s, cur) ==
  IF s = <<>> THEN <<cur>>
  ELSE IF Head(s) = "/" THEN <<cur>> \o SplitSlash(Tail(s), <<>>)
  ELSE SplitSlash(Tail(s), Append(cur, Head(s)))

Segments(s) == SelectSeq(SplitSlash(s, <<>>), LAMBDA seg : seg # <<>>)

SeqsUpTo(S, n) == UNION {[1..k -> S] : k \in 0..n}

Range(f) == {f[i] : i \in DOMAIN f}

(***************************************************************************)
(* The paths and payloads of the model                                     *)
(***************************************************************************)
PathA == <<"/", "a">>
PathASlash == <<"/", "a", "/">>
PathAB == <<"/", "a", "/", "b">>
PathAb == <<"/", "a", "b">>

BufH == Some(<<104>>)
BufI == Some(<<105>>)
BufNul == Some(<<0>>)
BufBad == Some(<<255>>)
BufEAcute == Some(<<195, 169>>)

Ev(t, p, b) == [type |-> t, path |-> p, buffer |-> b]

DirEvents ==
  {Ev(t, p, None) : t \in {"add_dir", "remove_dir"}, p \in {PathA, PathASlash, PathAb}}
  \cup {Ev("update_directory", PathA, None)}

FileEvents ==
  {Ev("add_file", p, BufH) : p \in {PathA, PathAB, PathAb}}
  \cup {Ev("add_file", PathAB, None), Ev("add_file", PathAB, BufNul),
        Ev("change", PathAB, BufI), Ev("change", PathAB, BufBad),
        Ev("change", PathAB, BufEAcute)}
  \cup {Ev("remove_file", p, None) : p \in {PathA, PathAB}}

Events == DirEvents \cup FileEvents

(***************************************************************************)
(* FilesStore: the map                                                     *)
(***************************************************************************)
Folder == [type |-> "folder"]
File(c, b) == [type |-> "file", content |-> c, isBinary |-> b]

Keys(fs) == {fs[i].path : i \in DOMAIN fs}

HasKey(fs, p) == p \in Keys(fs)

Get(fs, p) == fs[CHOOSE i \in DOMAIN fs : fs[i].path = p].dirent

\* nanostores setKey(key, value) with a defined value
SetKey(fs, p, d) ==
  IF HasKey(fs, p)
  THEN [i \in DOMAIN fs |-> IF fs[i].path = p THEN [path |-> p, dirent |-> d] ELSE fs[i]]
  ELSE Append(fs, [path |-> p, dirent |-> d])

\* nanostores setKey(key, undefined)
DeleteKey(fs, p) == SelectSeq(fs, LAMBDA e : e.path # p)

\* the characters with codes 32..126, the space first (the grave accent, which
\* a TLA+ string cannot hold, by its code)
PrintableAscii ==
  <<" ", "!", "\"", "#", "$", "%", "&", "'", "(", ")", "*", "+", ",", "-", ".", "/",
    "0", "1", "2", "3", "4", "5", "6", "7", "8", "9", ":", ";", "<", "=", ">", "?",
    "@", "A", "B", "C", "D", "E", "F", "G", "H", "I", "J", "K", "L", "M", "N", "O",
    "P", "Q", "R", "S", "T", "U", "V", "W", "X", "Y", "Z", "[", "\\", "]", "^", "_",
    "U+96", "a", "b", "c", "d", "e", "f", "g", "h", "i", "j", "k", "l", "m", "n", "o",
    "p", "q", "r", "s", "t", "u", "v", "w", "x", "y", "z", "{", "|", "}", "~">>

\* one UTF-16 code unit of a JavaScript string, as a character of the model
CodeUnitChar(u) == IF u \in 32..126 THEN PrintableAscii[u - 31] ELSE "U+" \o ToString(u)

\* the code units of one code point: a surrogate pair above U+FFFF
CodeUnits(cp) ==
  IF cp < 65536 THEN <<cp>>
  ELSE <<55296 + ((cp - 65536) \div 1024), 56320 + ((cp - 65536) % 1024)>>

RECURSIVE JsString(_)
JsString(points) ==
  IF points = <<>> THEN <<>>
  ELSE [k \in DOMAIN CodeUnits(Head(points)) |-> CodeUnitChar(CodeUnits(Head(points))[k])]
         \o JsString(Tail(points))

\* UTF-8: the number of bytes a lead byte announces after it, -1 for a byte
\* that cannot lead
Utf8Needed(lead) ==
  CASE lead < 128 -> 0
    [] lead \in 194..223 -> 1
    [] lead \in 224..239 -> 2
    [] lead \in 240..244 -> 3
    [] OTHER -> -1

\* the range of the k-th byte after the lead byte
Utf8Lower(lead, k) ==
  IF k = 1 /\ lead = 224 THEN 160 ELSE IF k = 1 /\ lead = 240 THEN 144 ELSE 128

Utf8Upper(lead, k) ==
  IF k = 1 /\ lead = 237 THEN 159 ELSE IF k = 1 /\ lead = 244 THEN 143 ELSE 191

\* how many of the bytes after position i continue the sequence of its lead byte
RECURSIVE Utf8Continuations(_, _, _, _)
Utf8Continuations(bytes, i, k, need) ==
  IF k > need \/ i + k > Len(bytes)
     \/ bytes[i + k] \notin Utf8Lower(bytes[i], k)..Utf8Upper(bytes[i], k)
  THEN k - 1
  ELSE Utf8Continuations(bytes, i, k + 1, need)

Utf8CodePoint(bytes, i, need) ==
  CASE need = 0 -> bytes[i]
    [] need = 1 -> (bytes[i] - 192) * 64 + (bytes[i + 1] - 128)
    [] need = 2 -> (bytes[i] - 224) * 4096 + (bytes[i + 1] - 128) * 64 + (bytes[i + 2] - 128)
    [] need = 3 -> (bytes[i] - 240) * 262144 + (bytes[i + 1] - 128) * 4096
                     + (bytes[i + 2] - 128) * 64 + (bytes[i + 3] - 128)

\* the UTF-8 decoder from position i on: the code points, with U+FFFD for every
\* ill-formed sequence, and whether any sequence was ill-formed
RECURSIVE Utf8Decode(_, _)
Utf8Decode(bytes, i) ==
  IF i > Len(bytes) THEN [malformed |-> FALSE, points |-> <<>>]
  ELSE
    LET need == Utf8Needed(bytes[i])
        seen == IF need < 0 THEN 0 ELSE Utf8Continuations(bytes, i, 1, need)
        wellFormed == need >= 0 /\ seen = need
        rest == Utf8Decode(bytes, i + seen + 1)
    IN [malformed |-> ~wellFormed \/ rest.malformed,
        points |-> <<IF wellFormed THEN Utf8CodePoint(bytes, i, need) ELSE 65533>>
                     \o rest.points]

\* utf8TextDecoder.decode (fatal, ignoreBOM false): None when it throws, else
\* the string without a leading byte order mark
Utf8TextDecoderDecode(bytes) ==
  LET decoded == Utf8Decode(bytes, 1)
      points == IF decoded.points # <<>> /\ Head(decoded.points) = 65279
                THEN Tail(decoded.points) ELSE decoded.points
  IN IF decoded.malformed THEN None ELSE Some(JsString(points))

DecodeFileContent(buffer) ==
  IF buffer = None \/ Len(buffer[1]) = 0 THEN <<>>
  ELSE IF Utf8TextDecoderDecode(buffer[1]) # None THEN Utf8TextDecoderDecode(buffer[1])[1]
  ELSE <<>>

\* Buffer.prototype.toString('utf8'): the code units, U+FFFD for ill-formed
\* bytes, a byte order mark kept
BufferToStringUtf8(bytes) ==
  LET points == Utf8Decode(bytes, 1).points
  IN IF points = <<>> THEN <<>> ELSE
       LET Units[k \in 0..Len(points)] ==
             IF k = 0 THEN <<>> ELSE Units[k - 1] \o CodeUnits(points[k])
       IN Units[Len(points)]

\* getEncoding(buffer, { chunkLength: 100 }) === 'binary' for a buffer of at
\* most 100 bytes (each sampled chunk is the whole buffer): the decoded chunk
\* holds U+FFFD or a character with code 8 or below
GetEncodingIsBinary(bytes) ==
  \E k \in DOMAIN BufferToStringUtf8(bytes) :
    BufferToStringUtf8(bytes)[k] = 65533 \/ BufferToStringUtf8(bytes)[k] <= 8

IsBinaryFile(buffer) ==
  IF buffer = None THEN FALSE ELSE GetEncodingIsBinary(buffer[1])

SanitizedPath(path) == StripTrailingSlashes(path)

RemoveDirOnlySelf(fs, sanitizedPath) == DeleteKey(fs, sanitizedPath)

RemoveDirOnlyChildren(fs, sanitizedPath) ==
  SelectSeq(fs, LAMBDA e : e.path = sanitizedPath \/ ~StartsWith(e.path, sanitizedPath))

RemoveDirIfPresent(fs, sanitizedPath) ==
  IF HasKey(fs, sanitizedPath)
  THEN SelectSeq(DeleteKey(fs, sanitizedPath), LAMBDA e : ~StartsWith(e.path, sanitizedPath))
  ELSE fs

RemoveDir(fs, sanitizedPath) ==
  SelectSeq(DeleteKey(fs, sanitizedPath), LAMBDA e : ~StartsWith(e.path, sanitizedPath))

FileDirent(buffer) ==
  LET isBinary == IsBinaryFile(buffer)
      content == IF ~isBinary THEN DecodeFileContent(buffer) ELSE <<>>
  IN File(content, isBinary)

\* one iteration of the loop of #processEventBuffer on st = [files, size]
ProcessEvent(st, ev) ==
  LET sanitizedPath == SanitizedPath(ev.path) IN
  CASE ev.type = "add_dir" ->
         [st EXCEPT !.files = SetKey(st.files, sanitizedPath, Folder)]
    [] ev.type = "remove_dir" ->
         [st EXCEPT !.files = RemoveDir(st.files, sanitizedPath)]
    [] ev.type = "add_file" ->
         [files |-> SetKey(st.files, sanitizedPath, FileDirent(ev.buffer)), size |-> st.size + 1]
    [] ev.type = "change" ->
         [st EXCEPT !.files = SetKey(st.files, sanitizedPath, FileDirent(ev.buffer))]
    [] ev.type = "remove_file" ->
         [files |-> DeleteKey(st.files, sanitizedPath), size |-> st.size - 1]
    [] OTHER -> st

RECURSIVE ProcessEvents(_, _)
ProcessEvents(st, watchEvents) ==
  IF watchEvents = <<>> THEN st
  ELSE ProcessEvents(ProcessEvent(st, Head(watchEvents)), Tail(watchEvents))

Flat2FirstCall(events) == IF events = <<>> THEN <<>> ELSE Head(events)[1]

\* events.flat(2) on Array<[events: PathWatcherEvent[]]>
RECURSIVE Flat2(_)
Flat2(events) ==
  IF events = <<>> THEN <<>> ELSE Head(events)[1] \o Flat2(Tail(events))

\* the two shapes in which the watcher hands a run of events to the buffer:
\* one callback with all of them, or one callback per event
OneCall(evs) == <<<<evs>>>>
CallPerEvent(evs) == [i \in DOMAIN evs |-> <<<<evs[i]>>>>]

\* setKey notifies the listeners of the map unless it removes an absent key
Notifies(fs, ev) ==
  LET sanitizedPath == SanitizedPath(ev.path) IN
  CASE ev.type \in {"add_dir", "add_file", "change"} -> TRUE
    [] ev.type = "remove_dir" -> \E k \in DOMAIN fs : StartsWith(fs[k].path, sanitizedPath)
    [] ev.type = "remove_file" -> HasKey(fs, sanitizedPath)
    [] OTHER -> FALSE

\* some event of the batch notifies the listeners
RECURSIVE BatchNotifies(_, _)
BatchNotifies(st, watchEvents) ==
  IF watchEvents = <<>> THEN FALSE
  ELSE \/ Notifies(st.files, Head(watchEvents))
       \/ BatchNotifies(ProcessEvent(st, Head(watchEvents)), Tail(watchEvents))

ProcessEventBuffer(events) ==
  LET watchEvents == Flat2(events)
      st == ProcessEvents([files |-> files, size |-> size], watchEvents)
  IN /\ watchEvents # <<>>
     /\ files' = st.files
     /\ size' = st.size
     /\ applied' = applied \o watchEvents
     /\ last' = [op |-> "processEventBuffer"]
     /\ dirty' = (dirty \/ BatchNotifies([files |-> files, size |-> size], watchEvents))
     /\ UNCHANGED <<webcontainer, modifiedFiles, lockedFiles, pending, saves, firstOld>>
     /\ UNCHANGED <<rootFolder, hideRoot, onFileSelect, hiddenFiles, collapsed, collapsedFolders,
                    fileList, filteredFileList, isLocked, mounted, effect>>

(***************************************************************************)
(* FileTree: the hidden patterns                                           *)
(***************************************************************************)
StringPattern(t) == [kind |-> "string", text |-> t, start |-> FALSE, end |-> FALSE]

\* a regular expression made of literal characters, with optional ^ and $
RegExp(t, start, end) == [kind |-> "regex", text |-> t, start |-> start, end |-> end]

EndsWith(s, t) == Len(t) <= Len(s) /\ SubSeq(s, Len(s) - Len(t) + 1, Len(s)) = t

RegExpTest(re, s) ==
  CASE re.start /\ re.end -> s = re.text
    [] re.start -> StartsWith(s, re.text)
    [] re.end -> EndsWith(s, re.text)
    [] OTHER -> Includes(s, re.text)

NodeModulesSlash == <<"/", "n", "o", "d", "e", "_", "m", "o", "d", "u", "l", "e", "s", "/">>
DotNext == <<"/", ".", "n", "e", "x", "t">>
DotAstro == <<"/", ".", "a", "s", "t", "r", "o">>

DEFAULT_HIDDEN_FILES ==
  <<RegExp(NodeModulesSlash, FALSE, FALSE), RegExp(DotNext, FALSE, FALSE),
    RegExp(DotAstro, FALSE, FALSE)>>

\* line 39: the default patterns, then those of the hiddenFiles prop
ComputedHiddenFiles(hiddenProp) == DEFAULT_HIDDEN_FILES \o hiddenProp

(***************************************************************************)
(* The store fed by the watcher alone                                      *)
(***************************************************************************)
WebcontainerStates == {"pending", "resolved", "rejected"}

StoreInit ==
  /\ files = <<>>
  /\ size = 0
  /\ modifiedFiles = <<>>
  /\ lockedFiles = <<>>
  /\ pending = <<>>
  /\ applied = <<>>
  /\ buffered = <<>>
  /\ emitted = <<>>
  /\ saves = 0
  /\ firstOld = <<>>

\* FileTree with its default props, about to render for the first time
ViewIdle ==
  /\ rootFolder = <<"/">>
  /\ hideRoot = FALSE
  /\ onFileSelect = FALSE
  /\ hiddenFiles = ComputedHiddenFiles(<<>>)
  /\ collapsed = <<>>
  /\ collapsedFolders = {}
  /\ fileList = <<>>
  /\ filteredFileList = <<>>
  /\ isLocked = <<>>
  /\ mounted = FALSE
  /\ dirty = TRUE
  /\ effect = None

\* the promise handed to the constructor may be settled already
Init ==
  /\ StoreInit
  /\ webcontainer \in WebcontainerStates
  /\ ViewIdle
  /\ last = [op |-> "init"]

\* the webcontainer boots: the promise resolves (index.ts, lines 21-33)
WebContainerBoot ==
  /\ webcontainer = "pending"
  /\ webcontainer' = "resolved"
  /\ last' = [op |-> "webcontainer:resolved"]
  /\ UNCHANGED <<files, size, modifiedFiles, lockedFiles, pending, applied, saves, firstOld>>
  /\ UNCHANGED <<viewVars, feedVars>>

\* the boot fails: the promise rejects (index.ts, lines 34-37)
WebContainerBootFailed ==
  /\ webcontainer = "pending"
  /\ webcontainer' = "rejected"
  /\ last' = [op |-> "webcontainer:rejected"]
  /\ UNCHANGED <<files, size, modifiedFiles, lockedFiles, pending, applied, saves, firstOld>>
  /\ UNCHANGED <<viewVars, feedVars>>

\* #init (lines 122-129): the watcher is set up once the promise has resolved
Watching == webcontainer = "resolved"

WatchBatch ==
  /\ Watching
  /\ \E evs \in SeqsUpTo(Events, MaxEvents - Len(applied)) :
       \E events \in {OneCall(evs), CallPerEvent(evs)} : ProcessEventBuffer(events)
  /\ UNCHANGED feedVars

Next ==
  \/ WebContainerBoot
  \/ WebContainerBootFailed
  \/ WatchBatch

Spec == Init /\ [][Next]_vars

(***************************************************************************)
(* A batch delivered twice in a row to a store that already holds a map    *)
(***************************************************************************)
MaxBatch == 2

EmptyStore == [files |-> <<>>, size |-> 0]

\* the events the store has applied before the batch arrives
TwiceLogs ==
  {<<>>,
   <<Ev("add_file", PathAB, BufH)>>,
   <<Ev("add_dir", PathA, None), Ev("add_file", PathAB, BufI)>>,
   <<Ev("add_dir", PathAb, None), Ev("add_file", PathA, BufH)>>}

TwiceInit ==
  /\ applied \in TwiceLogs
  /\ files = ProcessEvents(EmptyStore, applied).files
  /\ size = ProcessEvents(EmptyStore, applied).size
  /\ modifiedFiles = <<>>
  /\ lockedFiles = <<>>
  /\ pending = <<>>
  /\ buffered = <<>>
  /\ emitted = <<>>
  /\ saves = 0
  /\ firstOld = <<>>
  /\ webcontainer = "resolved"
  /\ ViewIdle
  /\ last = [op |-> "init"]

\* the watcher delivers a batch
TwiceFirst ==
  /\ Watching
  /\ applied \in TwiceLogs
  /\ \E evs \in SeqsUpTo(Events, MaxBatch) :
       \E events \in {OneCall(evs), CallPerEvent(evs)} : ProcessEventBuffer(events)
  /\ UNCHANGED feedVars

\* the watcher delivers the batch it delivered last once more
TwiceSecond ==
  /\ Watching
  /\ \E log \in TwiceLogs :
       \E k \in 1..MaxBatch :
         /\ Len(applied) = Len(log) + k
         /\ SubSeq(applied, 1, Len(log)) = log
         /\ LET evs == SubSeq(applied, Len(log) + 1, Len(applied))
            IN \E events \in {OneCall(evs), CallPerEvent(evs)} : ProcessEventBuffer(events)
  /\ UNCHANGED feedVars

TwiceNext ==
  \/ TwiceFirst
  \/ TwiceSecond

SpecTwice == TwiceInit /\ [][TwiceNext]_vars

(***************************************************************************)
(* The watch feed, the event batcher and the store                         *)
(***************************************************************************)
FeedEvents ==
  {Ev("add_dir", PathA, None), Ev("add_file", PathAB, BufH), Ev("change", PathAB, BufI),
   Ev("remove_file", PathAB, None), Ev("remove_dir", PathA, None)}

\* the watch feed invokes the callback bufferWatchEvents returned with one
\* list of events; the batcher keeps the call's arguments for the next tick
FeedEmit(evs) ==
  /\ Watching
  /\ evs # <<>>
  /\ buffered' = Append(buffered, <<evs>>)
  /\ emitted' = emitted \o evs
  /\ last' = [op |-> "watch"]
  /\ UNCHANGED storeVars
  /\ UNCHANGED viewVars

\* the quiet window has passed: the batcher hands every buffered call, in
\* arrival order, to #processEventBuffer and starts over with an empty buffer
BatcherTick ==
  /\ buffered # <<>>
  /\ ProcessEventBuffer(buffered)
  /\ buffered' = <<>>
  /\ UNCHANGED emitted

FeedWatch == \E evs \in SeqsUpTo(FeedEvents, MaxEvents - Len(emitted)) : FeedEmit(evs)

FeedNext ==
  \/ WebContainerBoot
  \/ WebContainerBootFailed
  \/ FeedWatch
  \/ BatcherTick

\* the timer the batcher arms on the first buffered call always fires
SpecFeed == Init /\ [][FeedNext]_vars /\ WF_vars(BatcherTick)

(***************************************************************************)
(* FilesStore: saveFile, modifications and locks                           *)
(***************************************************************************)
MaxSaveEvents == 2

SavePaths == {PathAB}
SaveContents == {<<"x">>}

SaveEvents ==
  {Ev("add_file", PathAB, BufH), Ev("add_file", PathAB, None),
   Ev("change", PathAB, BufI), Ev("remove_dir", PathA, None)}

\* getFile: undefined (None) unless the entry is a file
GetFile(fs, filePath) ==
  IF HasKey(fs, filePath) /\ Get(fs, filePath).type = "file"
  THEN Some(Get(fs, filePath).content)
  ELSE None

\* JavaScript truthiness of oldContent: undefined and '' are falsy
Truthy(oldContent) == oldContent # None /\ oldContent[1] # <<>>

MapSet(m, k, v) == [q \in DOMAIN m \cup {k} |-> IF q = k THEN v ELSE m[q]]

RemoveAt(seq, k) == SubSeq(seq, 1, k - 1) \o SubSeq(seq, k + 1, Len(seq))

\* lines 105-107: the snapshot is taken once per path
Snapshot(mods, filePath, oldContent) ==
  IF Truthy(oldContent) /\ filePath \notin DOMAIN mods
  THEN MapSet(mods, filePath, oldContent[1])
  ELSE mods

\* saveFile is called and suspends on the webcontainer promise (line 99);
\* line is the await the call is suspended on
SaveFileCall(filePath, content) ==
  /\ saves < MaxSaves
  /\ saves' = saves + 1
  /\ pending' = Append(pending, [filePath |-> filePath, content |-> content,
                                  line |-> 99, oldContent |-> None])
  /\ last' = [op |-> "saveFile"]
  /\ UNCHANGED <<webcontainer, files, size, modifiedFiles, lockedFiles, applied, firstOld>>
  /\ UNCHANGED <<viewVars, feedVars>>

\* lines 100-101: getFile reads the map and saveFile suspends on its promise
SaveFileGetFile(k) ==
  /\ pending[k].line = 99
  /\ webcontainer = "resolved"
  /\ pending' = [pending EXCEPT ![k].line = 101,
                                ![k].oldContent = GetFile(files, pending[k].filePath)]
  /\ last' = [op |-> "saveFile:getFile"]
  /\ UNCHANGED <<webcontainer, files, size, modifiedFiles, lockedFiles, applied, saves, firstOld>>
  /\ UNCHANGED <<viewVars, feedVars>>

\* line 103: the external write is issued and saveFile suspends on it
SaveFileWriteFile(k) ==
  /\ pending[k].line = 101
  /\ pending' = [pending EXCEPT ![k].line = 103]
  /\ last' = [op |-> "saveFile:writeFile"]
  /\ UNCHANGED <<webcontainer, files, size, modifiedFiles, lockedFiles, applied, saves, firstOld>>
  /\ UNCHANGED <<viewVars, feedVars>>

FilesAfterFailedWriteOptimistic(fs, call) == SetKey(fs, call.filePath, File(call.content, FALSE))

\* the map after a save one of whose awaits was rejected: the catch block
\* logs and rethrows, line 109 is never reached
FilesAfterFailedWrite(fs, call) == fs

\* the external write resolves: lines 105-115
SaveFileWritten(k) ==
  LET call == pending[k] IN
  /\ call.line = 103
  /\ modifiedFiles' = Snapshot(modifiedFiles, call.filePath, call.oldContent)
  /\ files' = SetKey(files, call.filePath, File(call.content, FALSE))
  /\ pending' = RemoveAt(pending, k)
  /\ firstOld' = IF call.filePath \in DOMAIN firstOld THEN firstOld
                 ELSE MapSet(firstOld, call.filePath, GetFile(files, call.filePath))
  /\ last' = [op |-> "saveFile:written", call |-> call,
               before |-> GetFile(files, call.filePath),
               snapshotBefore |-> IF call.filePath \in DOMAIN modifiedFiles
                                  THEN Some(modifiedFiles[call.filePath]) ELSE None]
  /\ dirty' = TRUE
  /\ UNCHANGED <<webcontainer, size, lockedFiles, applied, saves, feedVars>>
  /\ UNCHANGED <<rootFolder, hideRoot, onFileSelect, hiddenFiles, collapsed, collapsedFolders,
                 fileList, filteredFileList, isLocked, mounted, effect>>

\* an await of the try block rejects, the webcontainer promise (line 99) or
\* the external write (line 103): the catch block logs and rethrows
\* (lines 116-119)
SaveFileFailed(k) ==
  LET call == pending[k] IN
  /\ \/ call.line = 99 /\ webcontainer = "rejected"
     \/ call.line = 103
  /\ files' = FilesAfterFailedWrite(files, call)
  /\ pending' = RemoveAt(pending, k)
  /\ last' = [op |-> "saveFile:failed", call |-> call]
  /\ UNCHANGED <<webcontainer, size, modifiedFiles, lockedFiles, applied, saves, firstOld>>
  /\ UNCHANGED <<viewVars, feedVars>>

GetFileModifications == DOMAIN modifiedFiles

ResetFileModificationsOtherMap ==
  /\ modifiedFiles' = modifiedFiles
  /\ firstOld' = <<>>
  /\ last' = [op |-> "resetFileModifications"]
  /\ UNCHANGED <<webcontainer, files, size, lockedFiles, pending, applied, saves>>
  /\ UNCHANGED <<viewVars, feedVars>>

ResetFileModifications ==
  /\ modifiedFiles' = <<>>
  /\ firstOld' = <<>>
  /\ last' = [op |-> "resetFileModifications"]
  /\ UNCHANGED <<webcontainer, files, size, lockedFiles, pending, applied, saves>>
  /\ UNCHANGED <<viewVars, feedVars>>

IsFileLocked(filePath) ==
  IF filePath \in DOMAIN lockedFiles THEN lockedFiles[filePath] ELSE FALSE

ToggleFileLock(filePath) ==
  /\ lockedFiles' = MapSet(lockedFiles, filePath, ~IsFileLocked(filePath))
  /\ last' = [op |-> "toggleFileLock", filePath |-> filePath]
  /\ UNCHANGED <<webcontainer, files, size, modifiedFiles, pending, applied, saves, firstOld>>
  /\ UNCHANGED <<viewVars, feedVars>>

SaveWatchBatch ==
  /\ Watching
  /\ \E evs \in SeqsUpTo(SaveEvents, MaxSaveEvents - Len(applied)) :
       ProcessEventBuffer(OneCall(evs))
  /\ UNCHANGED feedVars

SaveCall == \E filePath \in SavePaths, content \in SaveContents : SaveFileCall(filePath, content)

SaveGetFile == \E k \in DOMAIN pending : SaveFileGetFile(k)

SaveWriteFile == \E k \in DOMAIN pending : SaveFileWriteFile(k)

SaveWritten == \E k \in DOMAIN pending : SaveFileWritten(k)

SaveFailed == \E k \in DOMAIN pending : SaveFileFailed(k)

Reset == ResetFileModifications

ToggleLock == \E filePath \in SavePaths : ToggleFileLock(filePath)

SaveNext ==
  \/ WebContainerBoot
  \/ WebContainerBootFailed
  \/ SaveWatchBatch
  \/ SaveCall
  \/ SaveGetFile
  \/ SaveWriteFile
  \/ SaveWritten
  \/ SaveFailed
  \/ Reset
  \/ ToggleLock

SpecSave == Init /\ [][SaveNext]_vars

(***************************************************************************)
(* FileTree: buildFileList                                                 *)
(***************************************************************************)
PatternMatches(pathOrRegex, filePath, fileName) ==
  IF pathOrRegex.kind = "string"
  THEN Includes(filePath, pathOrRegex.text) \/ Includes(fileName, pathOrRegex.text)
  ELSE RegExpTest(pathOrRegex, filePath) \/ RegExpTest(pathOrRegex, fileName)

IsHiddenFile(filePath, fileName, hidden) ==
  \E k \in DOMAIN hidden : PatternMatches(hidden[k], filePath, fileName)

NormalizedPath(filePath) == IF StartsWith(filePath, <<"/">>) THEN filePath ELSE <<"/">> \o filePath

Node(kind, id, name, fullPath, depth) ==
  [kind |-> kind, id |-> id, name |-> name, fullPath |-> fullPath, depth |-> depth]

RECURSIVE WalkSegmentsDepthByIndex(_, _, _, _, _, _, _, _, _)
WalkSegmentsDepthByIndex(acc, segments, dirent, i, currentPath, depth, root, hide, defaultDepth) ==
  IF i > Len(segments) THEN acc
  ELSE
    LET name == segments[i]
        fullPath == currentPath \o <<"/">> \o name
    IN IF ~StartsWith(fullPath, root) \/ (hide /\ fullPath = root)
       THEN WalkSegmentsDepthByIndex(acc, segments, dirent, i + 1, fullPath, depth + 1, root,
                                     hide, defaultDepth)
       ELSE
         LET nodeDepth == depth + (IF hide THEN 0 ELSE defaultDepth)
             next ==
               IF i = Len(segments) /\ dirent.type = "file"
               THEN [acc EXCEPT !.fileList =
                       Append(@, Node("file", Len(acc.fileList), name, fullPath, nodeDepth))]
               ELSE IF fullPath \notin acc.folderPaths
               THEN [fileList |->
                       Append(acc.fileList,
                              Node("folder", Len(acc.fileList), name, fullPath, nodeDepth)),
                     folderPaths |-> acc.folderPaths \cup {fullPath}]
               ELSE acc
         IN WalkSegmentsDepthByIndex(next, segments, dirent, i + 1, fullPath, depth + 1, root,
                                     hide, defaultDepth)

RECURSIVE WalkSegmentsNoSeen(_, _, _, _, _, _, _, _, _)
WalkSegmentsNoSeen(acc, segments, dirent, i, currentPath, depth, root, hide, defaultDepth) ==
  IF i > Len(segments) THEN acc
  ELSE
    LET name == segments[i]
        fullPath == currentPath \o <<"/">> \o name
    IN IF ~StartsWith(fullPath, root) \/ (hide /\ fullPath = root)
       THEN WalkSegmentsNoSeen(acc, segments, dirent, i + 1, fullPath, depth, root, hide,
                               defaultDepth)
       ELSE
         LET nodeDepth == depth + (IF hide THEN 0 ELSE defaultDepth)
             kind == IF i = Len(segments) /\ dirent.type = "file" THEN "file" ELSE "folder"
             next == [acc EXCEPT !.fileList =
                        Append(@, Node(kind, Len(acc.fileList), name, fullPath, nodeDepth))]
         IN WalkSegmentsNoSeen(next, segments, dirent, i + 1, fullPath, depth + 1, root, hide,
                               defaultDepth)

\* the while loop of lines 376-409 for one map entry; acc = [fileList, folderPaths]
RECURSIVE WalkSegments(_, _, _, _, _, _, _, _, _)
WalkSegments(acc, segments, dirent, i, currentPath, depth, root, hide, defaultDepth) ==
  IF i > Len(segments) THEN acc
  ELSE
    LET name == segments[i]
        fullPath == currentPath \o <<"/">> \o name
    IN IF ~StartsWith(fullPath, root) \/ (hide /\ fullPath = root)
       THEN WalkSegments(acc, segments, dirent, i + 1, fullPath, depth, root, hide, defaultDepth)
       ELSE
         LET nodeDepth == depth + (IF hide THEN 0 ELSE defaultDepth)
             next ==
               IF i = Len(segments) /\ dirent.type = "file"
               THEN [acc EXCEPT !.fileList =
                       Append(@, Node("file", Len(acc.fileList), name, fullPath, nodeDepth))]
               ELSE IF fullPath \notin acc.folderPaths
               THEN [fileList |->
                       Append(acc.fileList,
                              Node("folder", Len(acc.fileList), name, fullPath, nodeDepth)),
                     folderPaths |-> acc.folderPaths \cup {fullPath}]
               ELSE acc
         IN WalkSegments(next, segments, dirent, i + 1, fullPath, depth + 1, root, hide,
                         defaultDepth)

\* the body of the for loop of lines 362-410 for one map entry
AddEntry(acc, entry, root, hide, hidden, defaultDepth) ==
  LET normalizedPath == NormalizedPath(entry.path)
      segments == Segments(normalizedPath)
  IN IF segments = <<>> \/ IsHiddenFile(normalizedPath, segments[Len(segments)], hidden)
     THEN acc
     ELSE WalkSegments(acc, segments, entry.dirent, 1, <<>>, 0, root, hide, defaultDepth)

RECURSIVE AddEntries(_, _, _, _, _, _)
AddEntries(acc, fs, root, hide, hidden, defaultDepth) ==
  IF fs = <<>> THEN acc
  ELSE AddEntries(AddEntry(acc, Head(fs), root, hide, hidden, defaultDepth), Tail(fs),
                  root, hide, hidden, defaultDepth)

\* String.prototype.localeCompare on the characters of the model: the root
\* collation puts punctuation before digits before letters
Collation ==
  <<"_", ".", "/", "a", "b", "c", "d", "e", "f", "g", "h", "i", "j", "k", "l", "m",
    "n", "o", "p", "q", "r", "s", "t", "u", "v", "w", "x", "y", "z">>

CharRank(c) == CHOOSE k \in DOMAIN Collation : Collation[k] = c

RECURSIVE LocaleCompare(_, _)
LocaleCompare(a, b) ==
  IF a = <<>> /\ b = <<>> THEN 0
  ELSE IF a = <<>> THEN -1
  ELSE IF b = <<>> THEN 1
  ELSE IF CharRank(Head(a)) < CharRank(Head(b)) THEN -1
  ELSE IF CharRank(Head(a)) > CharRank(Head(b)) THEN 1
  ELSE LocaleCompare(Tail(a), Tail(b))

CompareNodesByName(a, b) == LocaleCompare(a.name, b.name)

\* the comparator of lines 412-420
CompareNodes(a, b) ==
  IF a.kind # b.kind THEN (IF a.kind = "folder" THEN -1 ELSE 1)
  ELSE LocaleCompare(a.name, b.name)

\* Array.prototype.sort is stable: a node goes after every node it does not precede
InsertSorted(sorted, n) ==
  LET k == Cardinality({i \in DOMAIN sorted : CompareNodes(sorted[i], n) <= 0})
  IN SubSeq(sorted, 1, k) \o <<n>> \o SubSeq(sorted, k + 1, Len(sorted))

RECURSIVE SortNodes(_, _)
SortNodes(sorted, rest) ==
  IF rest = <<>> THEN sorted ELSE SortNodes(InsertSorted(sorted, Head(rest)), Tail(rest))

BuildFileList(fs, root, hide, hidden) ==
  LET seedRoot == root = <<"/">> /\ ~hide
      defaultDepth == IF seedRoot THEN 1 ELSE 0
      seed == IF seedRoot THEN <<Node("folder", 0, <<"/">>, <<"/">>, 0)>> ELSE <<>>
      acc == AddEntries([fileList |-> seed, folderPaths |-> {}], fs, root, hide, hidden,
                        defaultDepth)
  IN SortNodes(<<>>, acc.fileList)

(***************************************************************************)
(* FileTree: the visible list                                              *)
(***************************************************************************)
MaxSafeInteger == 2147483647  \* Number.MAX_SAFE_INTEGER, as the largest integer TLC represents

Min(a, b) == IF a < b THEN a ELSE b

RECURSIVE FilterFromNoReset(_, _, _, _)
FilterFromNoReset(list, collapsedSet, i, lastDepth) ==
  IF i > Len(list) THEN <<>>
  ELSE
    LET depth == list[i].depth
        marked == IF list[i].fullPath \in collapsedSet THEN Min(lastDepth, depth) ELSE lastDepth
    IN IF marked < depth
       THEN FilterFromNoReset(list, collapsedSet, i + 1, marked)
       ELSE <<list[i]>> \o FilterFromNoReset(list, collapsedSet, i + 1, marked)

\* the loop of lines 127-146 from position i on, with the running lastDepth
RECURSIVE FilterFrom(_, _, _, _)
FilterFrom(list, collapsedSet, i, lastDepth) ==
  IF i > Len(list) THEN <<>>
  ELSE
    LET depth == list[i].depth
        reset == IF lastDepth = depth THEN MaxSafeInteger ELSE lastDepth
        marked == IF list[i].fullPath \in collapsedSet THEN Min(reset, depth) ELSE reset
    IN IF marked < depth
       THEN FilterFrom(list, collapsedSet, i + 1, marked)
       ELSE <<list[i]>> \o FilterFrom(list, collapsedSet, i + 1, marked)

FilteredFileList(list, collapsedSet) == FilterFrom(list, collapsedSet, 1, MaxSafeInteger)

FolderPathsOf(list) == {list[i].fullPath : i \in {j \in DOMAIN list : list[j].kind = "folder"}}

(***************************************************************************)
(* buildFileList and the visible list as functions of their inputs         *)
(***************************************************************************)
PathRelAb == <<"a", "b">>
PathNodeModulesP == NodeModulesSlash \o <<"p">>

TreePaths == {PathA, PathAB, PathAb, PathRelAb, PathNodeModulesP}
TreeDirents == {Folder, File(<<"h">>, FALSE)}

DistinctKeys(fs) == \A i, j \in DOMAIN fs : fs[i].path = fs[j].path => i = j

TreeMaps ==
  {fs \in SeqsUpTo([path : TreePaths, dirent : TreeDirents], MaxEntries) : DistinctKeys(fs)}

RootChoices ==
  {[root |-> r, hide |-> h] : r \in {<<"/">>, PathA}, h \in BOOLEAN}

HiddenChoices ==
  {<<>>, DEFAULT_HIDDEN_FILES,
   DEFAULT_HIDDEN_FILES \o <<StringPattern(<<"a", "b">>)>>,
   DEFAULT_HIDDEN_FILES \o <<RegExp(<<"a">>, TRUE, TRUE)>>}

TreeInit ==
  /\ files \in TreeMaps
  /\ \E rc \in RootChoices : rootFolder = rc.root /\ hideRoot = rc.hide
  /\ onFileSelect = FALSE
  /\ webcontainer = "resolved"
  /\ hiddenFiles \in HiddenChoices
  /\ size = 0
  /\ modifiedFiles = <<>>
  /\ lockedFiles = <<>>
  /\ pending = <<>>
  /\ applied = <<>>
  /\ buffered = <<>>
  /\ emitted = <<>>
  /\ saves = 0
  /\ firstOld = <<>>
  /\ collapsed = <<>>
  /\ collapsedFolders = {}
  /\ fileList = <<>>
  /\ filteredFileList = <<>>
  /\ isLocked = <<>>
  /\ mounted = FALSE
  /\ dirty = FALSE
  /\ effect = None
  /\ last = [op |-> "input"]

TreeBuild ==
  /\ last.op = "input"
  /\ fileList' = BuildFileList(files, rootFolder, hideRoot, hiddenFiles)
  /\ last' = [op |-> "buildFileList"]
  /\ UNCHANGED <<storeVars, feedVars>>
  /\ UNCHANGED <<rootFolder, hideRoot, onFileSelect, hiddenFiles, collapsed, collapsedFolders,
                 filteredFileList, isLocked, mounted, dirty, effect>>

TreeFilter ==
  /\ last.op = "buildFileList"
  /\ \E c \in SUBSET FolderPathsOf(fileList) :
       /\ collapsedFolders' = c
       /\ filteredFileList' = FilteredFileList(fileList, c)
  /\ last' = [op |-> "filteredFileList"]
  /\ UNCHANGED <<storeVars, feedVars>>
  /\ UNCHANGED <<rootFolder, hideRoot, onFileSelect, hiddenFiles, collapsed, fileList, isLocked, mounted,
                 dirty, effect>>

TreeNext ==
  \/ TreeBuild
  \/ TreeFilter

SpecTree == TreeInit /\ [][TreeNext]_vars

(***************************************************************************)
(* The visible list of a node list in pre-order                            *)
(***************************************************************************)
MaxNodes == 5

NameA == <<"A">>
NameAx == <<"A", "/", "x">>
NameAB == <<"A", "/", "B">>
NameABy == <<"A", "/", "B", "/", "y">>
NameC == <<"C">>
NameCz == <<"C", "/", "z">>

\* a node as the list holds it, at the depth of its path
PathNode(kind, fullPath) ==
  Node(kind, 0, Segments(fullPath)[Len(Segments(fullPath))], fullPath, Len(Segments(fullPath)) - 1)

PreNodes ==
  {PathNode("folder", NameA), PathNode("file", NameAx), PathNode("folder", NameAB),
   PathNode("file", NameABy), PathNode("folder", NameC), PathNode("file", NameCz)}

PathsOf(list) == {list[i].fullPath : i \in DOMAIN list}

\* b lies in the subtree of a
IsDescendant(b, a) == StartsWith(b.fullPath, a.fullPath \o <<"/">>)

\* every node comes after its parent, one level below it, and the descendants
\* of a node follow it without a gap
IsPreOrder(list) ==
  /\ \A i, j \in DOMAIN list : list[i].fullPath = list[j].fullPath => i = j
  /\ \A i \in DOMAIN list :
       \/ list[i].depth = 0 /\ Len(Segments(list[i].fullPath)) = 1
       \/ \E j \in 1..(i - 1) :
            /\ list[j].kind = "folder"
            /\ list[i].fullPath = list[j].fullPath \o <<"/">> \o list[i].name
            /\ list[i].depth = list[j].depth + 1
  /\ \A i, k, m \in DOMAIN list :
       (i < k /\ k < m /\ IsDescendant(list[m], list[i])) => IsDescendant(list[k], list[i])

PreOrderLists == {list \in SeqsUpTo(PreNodes, MaxNodes) : IsPreOrder(list)}

PreInit ==
  /\ StoreInit
  /\ webcontainer = "resolved"
  /\ rootFolder = <<"/">>
  /\ hideRoot = FALSE
  /\ onFileSelect = FALSE
  /\ hiddenFiles = ComputedHiddenFiles(<<>>)
  /\ collapsed = <<>>
  /\ collapsedFolders = {}
  /\ fileList \in PreOrderLists
  /\ filteredFileList = <<>>
  /\ isLocked = <<>>
  /\ mounted = FALSE
  /\ dirty = FALSE
  /\ effect = None
  /\ last = [op |-> "input"]

\* the memo of lines 122-149 for a collapsed set of any paths of the list
PreFilter ==
  /\ last.op = "input"
  /\ \E c \in SUBSET PathsOf(fileList) :
       /\ collapsedFolders' = c
       /\ filteredFileList' = FilteredFileList(fileList, c)
  /\ last' = [op |-> "filteredFileList"]
  /\ UNCHANGED <<storeVars, feedVars>>
  /\ UNCHANGED <<rootFolder, hideRoot, onFileSelect, hiddenFiles, collapsed, fileList, isLocked, mounted,
                 dirty, effect>>

PreNext == PreFilter

SpecPre == PreInit /\ [][PreNext]_vars

(***************************************************************************)
(* FileTree: the collapsed state and its reconciliation                    *)
(***************************************************************************)
SetsAreEqual(a, b) == Cardinality(a) = Cardinality(b) /\ \A val \in a : val \in b

\* lines 48-57: the initial state of collapsedFolders
InitialCollapsedFolders(collapsedList, list) ==
  IF Len(collapsedList) > 0
  THEN {path \in FolderPathsOf(list) : path \in Range(collapsedList)}
  ELSE {}

ReconcileKeepToggles(collapsedList, folderPaths, renderedCollapsed, prevCollapsed) ==
  IF Len(collapsedList) > 0
  THEN prevCollapsed \cup {path \in folderPaths : path \in Range(collapsedList)}
  ELSE {folder \in folderPaths : folder \in prevCollapsed}

ReconcileNoPrune(collapsedList, folderPaths, renderedCollapsed, prevCollapsed) ==
  IF Len(collapsedList) > 0
  THEN {path \in folderPaths : path \in Range(collapsedList)}
  ELSE prevCollapsed

ReconcileInverted(collapsedList, folderPaths, renderedCollapsed, prevCollapsed) ==
  IF Len(collapsedList) > 0
  THEN LET newCollapsed == {path \in folderPaths : path \in Range(collapsedList)}
       IN IF ~SetsAreEqual(newCollapsed, renderedCollapsed) THEN newCollapsed ELSE prevCollapsed
  ELSE LET newCollapsed == {folder \in folderPaths : folder \notin prevCollapsed}
       IN IF SetsAreEqual(newCollapsed, prevCollapsed) THEN prevCollapsed ELSE newCollapsed

\* the effect of lines 76-104: the next value of collapsedFolders.
\* renderedCollapsed is the collapsedFolders of the render the effect belongs
\* to (line 84 compares with it), prevCollapsed the state when the update is
\* applied (the updater of lines 92-103 receives it)
Reconcile(collapsedList, folderPaths, renderedCollapsed, prevCollapsed) ==
  IF Len(collapsedList) > 0
  THEN LET newCollapsed == {path \in folderPaths : path \in Range(collapsedList)}
       IN IF ~SetsAreEqual(newCollapsed, renderedCollapsed) THEN newCollapsed ELSE prevCollapsed
  ELSE LET newCollapsed == {folder \in folderPaths : folder \in prevCollapsed}
       IN IF SetsAreEqual(newCollapsed, prevCollapsed) THEN prevCollapsed ELSE newCollapsed

\* the effect hands React a new Set: a render is scheduled
ReconcileUpdates(collapsedList, folderPaths, renderedCollapsed, prevCollapsed) ==
  IF Len(collapsedList) > 0
  THEN ~SetsAreEqual({path \in folderPaths : path \in Range(collapsedList)}, renderedCollapsed)
  ELSE ~SetsAreEqual({folder \in folderPaths : folder \in prevCollapsed}, prevCollapsed)

\* lines 37 and 241, workbenchStore.filesStore: the store the components
\* subscribe to is the FilesStore fed by the watcher (the data flow of the
\* specification: File State Store -> Tree Builder)
WorkbenchFilesStore == [files |-> files, lockedFiles |-> lockedFiles]

FilePathsOf(list) == {list[i].fullPath : i \in {j \in DOMAIN list : list[j].kind = "file"}}

\* File, line 243: each File of the list computes isLocked while it renders
RenderedLocks(list) ==
  [path \in FilePathsOf(list) |->
     IF path \in DOMAIN WorkbenchFilesStore.lockedFiles
     THEN WorkbenchFilesStore.lockedFiles[path]
     ELSE FALSE]

\* what set the current run of renders and effects off, and the number of
\* effects that have run since
CauseOf(l) == IF l.op \in {"render", "effect"} THEN l.cause ELSE l.op

PassesOf(l) == IF l.op \in {"render", "effect"} THEN l.passes ELSE 0

MaxPasses == 3

\* a render of FileTree and of the Files of its list (lines 35-200, 239-292);
\* the first render takes collapsedFolders from initialCollapsedFolders
\* (line 59); the effect waits for the commit
Render ==
  LET list == BuildFileList(WorkbenchFilesStore.files, rootFolder, hideRoot, hiddenFiles)
      state == IF mounted THEN collapsedFolders ELSE InitialCollapsedFolders(collapsed, list)
      visible == FilteredFileList(list, state)
  IN /\ dirty
     /\ effect = None
     /\ fileList' = list
     /\ collapsedFolders' = state
     /\ filteredFileList' = visible
     /\ isLocked' = RenderedLocks(visible)
     /\ mounted' = TRUE
     /\ dirty' = FALSE
     /\ effect' = Some([collapsed |-> collapsed, collapsedFolders |-> state])
     /\ last' = [op |-> "render", cause |-> CauseOf(last), passes |-> PassesOf(last)]
     /\ UNCHANGED <<storeVars, feedVars>>
     /\ UNCHANGED <<rootFolder, hideRoot, onFileSelect, hiddenFiles, collapsed>>

\* React runs the effect of the last render (lines 76-104)
RunEffect ==
  /\ effect # None
  /\ LET rendered == effect[1]
         folderPaths == FolderPathsOf(fileList)
         updates == ReconcileUpdates(rendered.collapsed, folderPaths,
                                     rendered.collapsedFolders, collapsedFolders)
     IN /\ collapsedFolders' = Reconcile(rendered.collapsed, folderPaths,
                                         rendered.collapsedFolders, collapsedFolders)
        /\ dirty' = (dirty \/ updates)
        /\ last' = [op |-> "effect", cause |-> CauseOf(last),
                    passes |-> Min(PassesOf(last) + 1, MaxPasses), updated |-> updates,
                    collapsed |-> rendered.collapsed, before |-> collapsedFolders]
  /\ effect' = None
  /\ UNCHANGED <<storeVars, feedVars>>
  /\ UNCHANGED <<rootFolder, hideRoot, onFileSelect, hiddenFiles, collapsed, fileList, filteredFileList,
                 isLocked, mounted>>

ToggleCollapseState(fullPath) ==
  /\ collapsedFolders' = IF fullPath \in collapsedFolders
                         THEN collapsedFolders \ {fullPath}
                         ELSE collapsedFolders \cup {fullPath}
  /\ dirty' = TRUE
  /\ last' = [op |-> "toggleCollapseState"]
  /\ UNCHANGED <<storeVars, feedVars>>
  /\ UNCHANGED <<rootFolder, hideRoot, onFileSelect, hiddenFiles, collapsed, fileList, filteredFileList,
                 isLocked, mounted, effect>>

\* the parent renders FileTree with another collapsed list
SetCollapsedProp(collapsedList) ==
  /\ collapsedList # collapsed
  /\ collapsed' = collapsedList
  /\ dirty' = TRUE
  /\ last' = [op |-> "collapsed"]
  /\ UNCHANGED <<storeVars, feedVars>>
  /\ UNCHANGED <<rootFolder, hideRoot, onFileSelect, hiddenFiles, collapsedFolders, fileList,
                 filteredFileList, isLocked, mounted, effect>>

ViewEvents ==
  {Ev("add_dir", PathA, None), Ev("add_dir", PathAb, None),
   Ev("add_file", PathAB, BufH), Ev("remove_dir", PathAb, None)}

CollapsedChoices == {<<>>, <<PathA>>, <<PathAb, PathAB>>}

MountedLogs == {<<>>, <<Ev("add_dir", PathA, None)>>}

ViewInit ==
  /\ applied \in MountedLogs
  /\ files = ProcessEvents([files |-> <<>>, size |-> 0], applied).files
  /\ size = 0
  /\ modifiedFiles = <<>>
  /\ lockedFiles = <<>>
  /\ pending = <<>>
  /\ buffered = <<>>
  /\ emitted = <<>>
  /\ saves = 0
  /\ firstOld = <<>>
  /\ webcontainer = "resolved"
  /\ rootFolder = <<"/">>
  /\ hideRoot = FALSE
  /\ onFileSelect = FALSE
  /\ hiddenFiles = ComputedHiddenFiles(<<>>)
  /\ collapsed \in CollapsedChoices
  /\ fileList = BuildFileList(files, rootFolder, hideRoot, hiddenFiles)
  /\ collapsedFolders = InitialCollapsedFolders(collapsed, fileList)
  /\ filteredFileList = FilteredFileList(fileList, collapsedFolders)
  /\ isLocked = RenderedLocks(filteredFileList)
  /\ mounted = TRUE
  /\ dirty = FALSE
  /\ effect = Some([collapsed |-> collapsed, collapsedFolders |-> collapsedFolders])
  /\ last = [op |-> "mount"]

ViewWatchBatch ==
  /\ Watching
  /\ \E evs \in SeqsUpTo(ViewEvents, MaxEvents - Len(applied)) :
       ProcessEventBuffer(OneCall(evs))
  /\ UNCHANGED feedVars

ViewToggle ==
  \E i \in DOMAIN filteredFileList :
    filteredFileList[i].kind = "folder" /\ ToggleCollapseState(filteredFileList[i].fullPath)

ViewCollapsedProp == \E collapsedList \in CollapsedChoices : SetCollapsedProp(collapsedList)

ViewNext ==
  \/ ViewWatchBatch
  \/ Render
  \/ RunEffect
  \/ ViewToggle
  \/ ViewCollapsedProp

SpecView == ViewInit /\ [][ViewNext]_vars

(***************************************************************************)
(* The reconciliation effect alone, from any collapsed set                 *)
(***************************************************************************)
FixEvents ==
  {Ev("add_dir", PathA, None), Ev("add_dir", PathAb, None), Ev("add_file", PathAB, BufH)}

FixCollapsedSets == SUBSET {<<"/">>, PathA, PathAb, PathAB}

\* the props and the map stay as they are; FileTree has rendered with any
\* set in collapsedFolders and the effect of that render waits
FixInit ==
  /\ applied \in SeqsUpTo(FixEvents, MaxEvents)
  /\ files = ProcessEvents(EmptyStore, applied).files
  /\ size = ProcessEvents(EmptyStore, applied).size
  /\ modifiedFiles = <<>>
  /\ lockedFiles = <<>>
  /\ pending = <<>>
  /\ buffered = <<>>
  /\ emitted = <<>>
  /\ saves = 0
  /\ firstOld = <<>>
  /\ webcontainer = "resolved"
  /\ rootFolder = <<"/">>
  /\ hideRoot = FALSE
  /\ onFileSelect = FALSE
  /\ hiddenFiles = ComputedHiddenFiles(<<>>)
  /\ collapsed \in CollapsedChoices
  /\ fileList = BuildFileList(files, rootFolder, hideRoot, hiddenFiles)
  /\ collapsedFolders \in FixCollapsedSets
  /\ filteredFileList = FilteredFileList(fileList, collapsedFolders)
  /\ isLocked = RenderedLocks(filteredFileList)
  /\ mounted = TRUE
  /\ dirty = FALSE
  /\ effect = Some([collapsed |-> collapsed, collapsedFolders |-> collapsedFolders])
  /\ last = [op |-> "setCollapsedFolders"]

FixNext ==
  \/ Render
  \/ RunEffect

SpecFix == FixInit /\ [][FixNext]_vars

(***************************************************************************)
(* The tree of the map the change events make                              *)
(***************************************************************************)
\* the events of the model whose payload is text
MirrorEvents ==
  DirEvents \cup {ev \in FileEvents : ev.type = "remove_file" \/ ev.buffer = BufH}

MirrorWatchBatch ==
  /\ Watching
  /\ \E evs \in SeqsUpTo(MirrorEvents, MaxEvents - Len(applied)) :
       \E events \in {OneCall(evs), CallPerEvent(evs)} : ProcessEventBuffer(events)
  /\ UNCHANGED feedVars

MirrorNext ==
  \/ WebContainerBoot
  \/ WebContainerBootFailed
  \/ MirrorWatchBatch
  \/ Render
  \/ RunEffect

SpecMirror == Init /\ [][MirrorNext]_vars

(***************************************************************************)
(* File: locks, clicks and the store                                       *)
(***************************************************************************)
LockEvents == {Ev("add_file", PathAB, BufH), Ev("change", PathAB, BufI)}

\* File re-renders on its own when the pointer enters or leaves it
\* (setShowLock, lines 258-259)
SetShowLock(path) ==
  /\ path \in DOMAIN isLocked
  /\ isLocked' = [isLocked EXCEPT ![path] = IsFileLocked(path)]
  /\ last' = [op |-> "setShowLock"]
  /\ UNCHANGED <<storeVars, feedVars>>
  /\ UNCHANGED <<rootFolder, hideRoot, onFileSelect, hiddenFiles, collapsed, collapsedFolders,
                 fileList, filteredFileList, mounted, dirty, effect>>

\* handleFileClick of the File rendered last for path (line 251): onSelect(path)
\* is called when that render computed isLocked as false and a callback was
\* given (onSelect is the onFileSelect prop of FileTree, line 177)
HandleFileClick(path) ==
  /\ path \in DOMAIN isLocked
  /\ last' = [op |-> "handleFileClick", path |-> path, onSelect |-> (~isLocked[path] /\ onFileSelect),
               locked |-> IsFileLocked(path)]
  /\ UNCHANGED <<storeVars, feedVars>>
  /\ UNCHANGED viewVars

LockInit ==
  /\ StoreInit
  /\ webcontainer \in WebcontainerStates
  /\ rootFolder = <<"/">>
  /\ hideRoot = FALSE
  /\ onFileSelect \in BOOLEAN
  /\ hiddenFiles = ComputedHiddenFiles(<<>>)
  /\ collapsed = <<>>
  /\ fileList = BuildFileList(files, rootFolder, hideRoot, hiddenFiles)
  /\ collapsedFolders = InitialCollapsedFolders(collapsed, fileList)
  /\ filteredFileList = FilteredFileList(fileList, collapsedFolders)
  /\ isLocked = RenderedLocks(filteredFileList)
  /\ mounted = TRUE
  /\ dirty = FALSE
  /\ effect = Some([collapsed |-> collapsed, collapsedFolders |-> collapsedFolders])
  /\ last = [op |-> "mount"]

LockWatchBatch ==
  /\ Watching
  /\ \E evs \in SeqsUpTo(LockEvents, MaxEvents - Len(applied)) :
       ProcessEventBuffer(OneCall(evs))
  /\ UNCHANGED feedVars

LockSaveCall == \E filePath \in SavePaths : SaveFileCall(filePath, <<"x">>)

FileMouse == \E path \in SavePaths : SetShowLock(path)

FileClick == \E path \in SavePaths : HandleFileClick(path)

LockNext ==
  \/ WebContainerBoot
  \/ WebContainerBootFailed
  \/ LockWatchBatch
  \/ LockSaveCall
  \/ SaveGetFile
  \/ SaveWriteFile
  \/ SaveWritten
  \/ SaveFailed
  \/ Reset
  \/ ToggleLock
  \/ Render
  \/ RunEffect
  \/ FileMouse
  \/ FileClick

SpecLock == LockInit /\ [][LockNext]_vars

(***************************************************************************)
(* Change events: what the log of applied events says about the map        *)
(***************************************************************************)
IsSetEvent(ev) == ev.type \in {"add_dir", "add_file", "change"}

\* the state a non-removal event sets for its path
StateSetBy(ev) == IF ev.type = "add_dir" THEN Folder ELSE FileDirent(ev.buffer)

SetIndexes(log, p) == {i \in DOMAIN log : IsSetEvent(log[i]) /\ SanitizedPath(log[i].path) = p}

LastSetIndex(log, p) == CHOOSE i \in SetIndexes(log, p) : \A j \in SetIndexes(log, p) : j <= i

HoldsLastSet(fs, log) ==
  \A k \in DOMAIN fs :
    /\ SetIndexes(log, fs[k].path) # {}
    /\ fs[k].dirent = StateSetBy(log[LastSetIndex(log, fs[k].path)])

RemoveDirIndexes(log) == {i \in DOMAIN log : log[i].type = "remove_dir"}

\* C1 (as claimed): For every finite sequence of change events applied from the
\* empty map, every present path holds the state set by the most recent
\* non-removal event for that path, and every path that received a
\* directory-removal event, or is prefixed by a path that did, is absent.
C1_LastWinsRemovedAbsent ==
  /\ HoldsLastSet(files, applied)
  /\ \A i \in RemoveDirIndexes(applied) :
       \A p \in Keys(files) : ~StartsWith(p, SanitizedPath(applied[i].path))

\* C1 (amended): every present path holds the state set by the most recent
\* non-removal event for that path, and every path that received a
\* directory-removal event, or is prefixed by a path that did, is absent
\* unless an add or change event for that very path was applied after the
\* removal.
C1_LastWinsRemovedUntilReAdded ==
  /\ HoldsLastSet(files, applied)
  /\ \A i \in RemoveDirIndexes(applied) :
       \A p \in Keys(files) :
         StartsWith(p, SanitizedPath(applied[i].path)) => LastSetIndex(applied, p) > i

C1_Witness ==
  /\ Len(applied) = 3
  /\ applied[1] = Ev("add_file", PathAB, BufH)
  /\ applied[2] = Ev("remove_dir", PathA, None)
  /\ applied[3] = Ev("change", PathAB, BufI)
  /\ files = <<[path |-> PathAB, dirent |-> File(<<"i">>, FALSE)]>>

\* C2: Immediately after a directory-removed event for path P is applied, P is
\* absent from the map and so is every path that was present and is prefixed
\* by P.
C2_RemoveDirCascades ==
  (applied # <<>> /\ applied[Len(applied)].type = "remove_dir") =>
    \A p \in Keys(files) : ~StartsWith(p, SanitizedPath(applied[Len(applied)].path))

C2_Witness ==
  /\ Len(applied) = 3
  /\ applied[1] = Ev("add_dir", PathA, None)
  /\ applied[2] = Ev("add_file", PathAB, BufH)
  /\ applied[3] = Ev("remove_dir", PathASlash, None)
  /\ files = <<>>

FileEntries(fs) == {k \in DOMAIN fs : fs[k].dirent.type = "file"}

\* C10: filesCount is the running count of file entries: after any sequence of
\* applied change events, filesCount equals the number of paths whose entry is
\* a File.
C10_FilesCountIsFileEntries ==
  (saves = 0) => size = Cardinality(FileEntries(files))

\* the map as a set of [path, dirent] pairs, whatever the order of its keys
Entries(fs) == Range(fs)

\* the log ends with the same k events twice
EndsWithTwice(log, k) ==
  /\ 2 * k <= Len(log)
  /\ SubSeq(log, Len(log) - 2 * k + 1, Len(log) - k) = SubSeq(log, Len(log) - k + 1, Len(log))

\* C11: Applying the same batch of change events twice in a row (with
\* identical payloads) to any FileMap yields the same final FileMap (the same
\* entry for every path) as applying it once.
C11_TwiceAsOnce ==
  \A k \in 1..Len(applied) :
    EndsWithTwice(applied, k) =>
      Entries(files) = Entries(ProcessEvents(EmptyStore, SubSeq(applied, 1, Len(applied) - k)).files)

C11_Witness ==
  /\ applied = <<Ev("add_file", PathAB, BufH),
                 Ev("remove_dir", PathA, None), Ev("add_dir", PathA, None),
                 Ev("remove_dir", PathA, None), Ev("add_dir", PathA, None)>>
  /\ files = <<[path |-> PathA, dirent |-> Folder]>>

\* the events of the buffered watcher calls, first call first
RECURSIVE InArrivalOrder(_)
InArrivalOrder(calls) ==
  IF calls = <<>> THEN <<>> ELSE calls[1][1] \o InArrivalOrder(Tail(calls))

\* every emitted event has been applied or waits in the batcher, once and in
\* the order of emission, and the map is what that order makes it
FeedConserved ==
  /\ emitted = applied \o InArrivalOrder(buffered)
  /\ HoldsLastSet(files, SubSeq(emitted, 1, Len(applied)))
  /\ \A i \in RemoveDirIndexes(applied) :
       \A p \in Keys(files) :
         StartsWith(p, SanitizedPath(emitted[i].path)) =>
           LastSetIndex(SubSeq(emitted, 1, Len(applied)), p) > i

\* C12: Every change event emitted by the sandbox watch feed is applied to
\* the FileMap exactly once and in arrival order: the batcher drops no event
\* and reorders no event within a batch or across adjacent batches, and the
\* store applies each delivered batch's events in the delivered order.
C12_EveryEventAppliedOnceInOrder ==
  /\ []FeedConserved
  /\ []<>(applied = emitted)

C12_Witness ==
  /\ last.op = "processEventBuffer"
  /\ buffered = <<>>
  /\ emitted = <<Ev("add_file", PathAB, BufH), Ev("remove_dir", PathA, None),
                 Ev("change", PathAB, BufI)>>
  /\ applied = emitted
  /\ files = <<[path |-> PathAB, dirent |-> File(<<"i">>, FALSE)]>>

(***************************************************************************)
(* saveFile                                                                *)
(***************************************************************************)
\* C3: If the external write of saveFile(path, content) fails, saveFile fails
\* (the error reaches the caller, the write is not retried) and the call
\* changes nothing in local state: the map, the modification set and the lock
\* set are as they were.
C3_FailedSaveChangesNothing ==
  [][/\ ((saves' = saves + 1) =>
           (files' = files /\ modifiedFiles' = modifiedFiles /\ lockedFiles' = lockedFiles))
     /\ ((Len(pending') < Len(pending) /\ last'.op = "saveFile:failed") =>
           (/\ files' = files
            /\ modifiedFiles' = modifiedFiles
            /\ lockedFiles' = lockedFiles
            /\ Len(pending') = Len(pending) - 1
            /\ saves' = saves))]_vars

C3_Witness ==
  /\ last.op = "saveFile:failed"
  /\ last.call.filePath = PathAB
  /\ GetFile(files, PathAB) = Some(<<"h">>)
  /\ modifiedFiles = <<>>
  /\ pending = <<>>

\* C4: For every successful saveFile(path, c): the entry for path becomes a
\* non-binary File with content c; if path had prior content and no snapshot
\* exists for it, the prior content is captured as its snapshot; an existing
\* snapshot is left unchanged.  Hence over successive successful saves of a
\* path with no intervening reset, the snapshot stays the content the file had
\* before the first save.
C4_SnapshotFirstWriteWins ==
  (last.op = "saveFile:written") =>
    LET path == last.call.filePath IN
    /\ HasKey(files, path) /\ Get(files, path) = File(last.call.content, FALSE)
    /\ ((last.before # None /\ last.snapshotBefore = None) =>
          (path \in DOMAIN modifiedFiles /\ modifiedFiles[path] = last.before[1]))
    /\ ((last.snapshotBefore # None) =>
          (path \in DOMAIN modifiedFiles /\ modifiedFiles[path] = last.snapshotBefore[1]))
    /\ ((path \in DOMAIN modifiedFiles) => firstOld[path] = Some(modifiedFiles[path]))

\* C17: Under any interleaving of change-event batches (and other saves) with
\* a saveFile(path, c) that is suspended on its external write, the snapshot
\* that saveFile captures for path equals the content the FileMap held for
\* path at the instant just before saveFile overwrote the entry (the snapshot
\* is never a stale value read before the suspension).
C17_SnapshotIsContentBeforeOverwrite ==
  (/\ last.op = "saveFile:written"
   /\ last.snapshotBefore = None
   /\ last.call.filePath \in DOMAIN modifiedFiles) =>
    last.before = Some(modifiedFiles[last.call.filePath])

\* C14: From any reachable store state, resetFileModifications immediately
\* followed by getFileModifications returns an empty result, and the reset
\* leaves every FileMap entry (file contents) unchanged.
C14_ResetEmptiesModificationsOnly ==
  /\ []((last.op = "resetFileModifications") => (GetFileModifications = {}))
  /\ [][(last'.op = "resetFileModifications") => (files' = files)]_vars

C14_Witness ==
  /\ last.op = "resetFileModifications"
  /\ applied = <<Ev("add_file", PathAB, BufH)>>
  /\ saves = 1
  /\ pending = <<>>
  /\ GetFile(files, PathAB) = Some(<<"x">>)
  /\ GetFileModifications = {}

(***************************************************************************)
(* Locks                                                                   *)
(***************************************************************************)
LockedIn(locks, p) == IF p \in DOMAIN locks THEN locks[p] ELSE FALSE

LockProbePaths == {PathA, PathAB, PathAb}

StoreOps ==
  {"processEventBuffer", "saveFile", "saveFile:getFile", "saveFile:writeFile",
   "saveFile:written", "saveFile:failed", "resetFileModifications"}

\* the lock flags change by toggleFileLock alone, which flips the flag of its
\* path, and a batch ending with an add or change of a locked file updates it
LocksFrame ==
  /\ \A p \in LockProbePaths :
       (LockedIn(lockedFiles', p) # LockedIn(lockedFiles, p)) =>
         (last'.op = "toggleFileLock" /\ last'.filePath = p)
  /\ (last'.op = "toggleFileLock") =>
       (LockedIn(lockedFiles', last'.filePath) = ~LockedIn(lockedFiles, last'.filePath))
  /\ (last'.op \in StoreOps) => (lockedFiles' = lockedFiles)
  /\ (/\ last'.op = "processEventBuffer"
      /\ applied' # applied
      /\ applied'[Len(applied')].type \in {"add_file", "change"}
      /\ IsFileLocked(SanitizedPath(applied'[Len(applied')].path))) =>
       (/\ HasKey(files', SanitizedPath(applied'[Len(applied')].path))
        /\ Get(files', SanitizedPath(applied'[Len(applied')].path))
             = FileDirent(applied'[Len(applied')].buffer))

\* C13: The lock flag of a path changes only through toggleFileLock(path),
\* which flips isFileLocked(path) whether or not the path exists in the
\* FileMap; change events, saveFile and resetFileModifications never change
\* any lock flag, a change event for a locked file still updates its FileMap
\* entry, and clicking a locked file never invokes the selection callback.
C13_LockOnlyByToggleAndBlocksClick ==
  [][/\ LocksFrame
     /\ ((last'.op = "handleFileClick" /\ last'.locked) => ~last'.onSelect)]_vars

(***************************************************************************)
(* The tree and the visible list                                           *)
(***************************************************************************)
\* q is a proper ancestor folder of p
IsProperAncestor(q, p) ==
  IF q = <<"/">> THEN p # <<"/">> ELSE StartsWith(p, q \o <<"/">>)

HasCollapsedAncestor(n, collapsedSet) ==
  \E q \in collapsedSet : IsProperAncestor(q, n.fullPath)

\* C5: For the node list the tree builder produces from any FileMap, and any
\* collapsed set of existing folders, the visible list is exactly the nodes
\* that have no collapsed proper ancestor.
C5_VisibleIffNoCollapsedAncestor ==
  (last.op = "filteredFileList") =>
    filteredFileList =
      SelectSeq(fileList, LAMBDA n : ~HasCollapsedAncestor(n, collapsedFolders))
RoundTripCase ==
  /\ last.op = "filteredFileList"
  /\ rootFolder = <<"/">>
  /\ hiddenFiles = <<>>
  /\ collapsedFolders = {}

IsSyntheticRoot(n) == n.fullPath = <<"/">>

NodesOfEntry(list, entry) ==
  {i \in DOMAIN list : /\ list[i].fullPath = NormalizedPath(entry.path)
                       /\ list[i].kind = entry.dirent.type}

OneNodePerEntry(list, fs) ==
  /\ \A k \in DOMAIN fs : Cardinality(NodesOfEntry(list, fs[k])) = 1
  /\ \A i \in DOMAIN list :
       IsSyntheticRoot(list[i]) \/ \E k \in DOMAIN fs : i \in NodesOfEntry(list, fs[k])
  /\ Cardinality({i \in DOMAIN list : IsSyntheticRoot(list[i])}) = IF hideRoot THEN 0 ELSE 1

FoldersFirstByName(list) ==
  \A i, j \in DOMAIN list :
    i < j =>
      /\ (list[i].kind = "file" => list[j].kind = "file")
      /\ (list[i].kind = list[j].kind => LocaleCompare(list[i].name, list[j].name) <= 0)

\* C8 (as claimed): Building the tree from any FileMap with root '/' and no
\* hidden patterns, then filtering with an empty collapsed set, yields exactly
\* one node per map entry (plus the synthetic root when the root is not
\* hidden), folders before files and alphabetically by name within each kind.
C8_RoundTripAnyMap ==
  RoundTripCase =>
    (OneNodePerEntry(filteredFileList, files) /\ FoldersFirstByName(filteredFileList))

RECURSIVE JoinSegments(_)
JoinSegments(segments) ==
  IF segments = <<>> THEN <<>> ELSE <<"/">> \o Head(segments) \o JoinSegments(Tail(segments))

\* the proper prefixes of a path that end before a '/'
AncestorPaths(p) ==
  {JoinSegments(SubSeq(Segments(p), 1, k)) : k \in 1..(Len(Segments(p)) - 1)}

\* every key is a non-empty absolute path without empty segments, and every
\* folder above an entry is itself an entry of type folder
ParentClosed(fs) ==
  \A k \in DOMAIN fs :
    /\ fs[k].path # <<>>
    /\ fs[k].path = JoinSegments(Segments(fs[k].path))
    /\ \A q \in AncestorPaths(fs[k].path) : HasKey(fs, q) /\ Get(fs, q).type = "folder"

\* C8 (amended): For any FileMap whose keys are absolute paths without empty
\* segments and in which every folder above an entry is itself a folder entry,
\* building with root '/' and no hidden patterns, then filtering with an empty
\* collapsed set, yields exactly one node per map entry (plus the synthetic
\* root when the root is not hidden), folders before files and alphabetically
\* by name within each kind.
C8_RoundTripParentClosed ==
  (RoundTripCase /\ ParentClosed(files)) =>
    (OneNodePerEntry(filteredFileList, files) /\ FoldersFirstByName(filteredFileList))

C8_Witness ==
  /\ RoundTripCase
  /\ ~hideRoot
  /\ files = <<[path |-> PathAb, dirent |-> File(<<"h">>, FALSE)],
               [path |-> PathA, dirent |-> Folder],
               [path |-> PathAB, dirent |-> Folder]>>
  /\ [i \in DOMAIN filteredFileList |-> filteredFileList[i].fullPath]
       = <<<<"/">>, PathA, PathAB, PathAb>>

ExampleList ==
  <<PathNode("folder", NameA), PathNode("file", NameAx), PathNode("folder", NameAB),
    PathNode("file", NameABy), PathNode("folder", NameC)>>

\* C15: Given a node list in true pre-order (every node is preceded by its
\* parent, a folder's descendants are contiguous after it, depth = parent's
\* depth + 1) and any collapsed set, the visibility filter returns, in the
\* original order, exactly the nodes with no collapsed proper ancestor; for
\* nodes [A d0, A/x d1, A/B d1, A/B/y d2, C d0] with collapsed = {A} the
\* result is exactly [A, C].
C15_PreOrderVisibleIffNoCollapsedAncestor ==
  (last.op = "filteredFileList" /\ IsPreOrder(fileList)) =>
    /\ filteredFileList =
         SelectSeq(fileList, LAMBDA n : ~HasCollapsedAncestor(n, collapsedFolders))
    /\ ((fileList = ExampleList /\ collapsedFolders = {NameA}) =>
          filteredFileList = <<PathNode("folder", NameA), PathNode("folder", NameC)>>)

C15_Witness ==
  /\ last.op = "filteredFileList"
  /\ fileList = <<PathNode("folder", NameA), PathNode("folder", NameAB),
                  PathNode("file", NameABy), PathNode("folder", NameC),
                  PathNode("file", NameCz)>>
  /\ collapsedFolders = {NameAB}
  /\ PathsOf(filteredFileList) = {NameA, NameAB, NameC, NameCz}

\* every node whose parent folder has a node comes after it, and the nodes
\* below a folder follow it without a gap
ParentFirstContiguous(list) ==
  /\ \A i, j \in DOMAIN list :
       (/\ list[j].kind = "folder"
        /\ IsProperAncestor(list[j].fullPath, list[i].fullPath)) => j < i
  /\ \A i, k, m \in DOMAIN list :
       (/\ i < k
        /\ k < m
        /\ list[i].kind = "folder"
        /\ IsProperAncestor(list[i].fullPath, list[m].fullPath)) =>
         IsProperAncestor(list[i].fullPath, list[k].fullPath)

\* C16: In the tree builder's output for any FileMap, every node appears
\* after the node of its parent folder (parent-before-children ordering), and
\* all descendants of a folder are listed contiguously after it.
C16_ParentFirstContiguous ==
  (last.op = "buildFileList") => ParentFirstContiguous(fileList)

\* C18 (as claimed): The tree builder never emits two nodes with the same
\* fullPath: for any FileMap reachable through change events, each folder
\* prefix is emitted at most once and each file at most once, and no path is
\* emitted both as a file node and as a folder node.
C18_NoTwoNodesSamePath ==
  (last.op = "render") =>
    \A i, j \in DOMAIN fileList : fileList[i].fullPath = fileList[j].fullPath => i = j

\* C18 (amended): for any FileMap reachable through change events with
\* absolute paths without empty segments, each folder prefix is emitted at
\* most once and each file at most once; two nodes have the same fullPath only
\* when the path is a file entry and also lies above another entry, and then
\* they are its one file node and its one folder node.
C18_NoTwoNodesSamePathAndKind ==
  (last.op = "render") =>
    \A i, j \in DOMAIN fileList :
      (i # j /\ fileList[i].fullPath = fileList[j].fullPath) =>
        /\ fileList[i].kind # fileList[j].kind
        /\ GetFile(files, fileList[i].fullPath) # None
        /\ \E p \in Keys(files) : IsProperAncestor(fileList[i].fullPath, p)

C18_Witness ==
  /\ last.op = "render"
  /\ Keys(files) = {PathA, PathAB}
  /\ GetFile(files, PathA) # None
  /\ \E i, j \in DOMAIN fileList :
       /\ fileList[i] = Node("file", fileList[i].id, <<"a">>, PathA, 1)
       /\ fileList[j] = Node("folder", fileList[j].id, <<"a">>, PathA, 1)

\* C19: Every node the tree builder emits (other than the synthetic root)
\* falls under rootFolder: its fullPath is rootFolder itself or a path of
\* which rootFolder is a proper ancestor directory; when hideRoot is set, the
\* root path itself is not emitted.
C19_NodesUnderRootFolder ==
  (last.op = "buildFileList") =>
    \A i \in DOMAIN fileList :
      /\ \/ fileList[i].fullPath = rootFolder
         \/ IsProperAncestor(rootFolder, fileList[i].fullPath)
      /\ (hideRoot => fileList[i].fullPath # rootFolder)

\* the folder a path lies in
ParentPath(p) ==
  IF Len(Segments(p)) <= 1 THEN <<"/">>
  ELSE JoinSegments(SubSeq(Segments(p), 1, Len(Segments(p)) - 1))

RootSeeded == rootFolder = <<"/">> /\ ~hideRoot

\* the folders above a node that the list holds as well
EmittedAncestors(list, n) == AncestorPaths(n.fullPath) \cap FolderPathsOf(list)

\* C20: In the tree builder's output the synthetic root (emitted only when
\* rootFolder is '/' and the root is not hidden) has depth 0, and every other
\* emitted node has depth equal to the number of emitted ancestor segments
\* consumed to reach it plus the root offset, so that every node whose parent
\* folder is also emitted has depth exactly parent's depth + 1.
C20_DepthCountsEmittedAncestors ==
  (last.op = "buildFileList") =>
    /\ (\E i \in DOMAIN fileList : IsSyntheticRoot(fileList[i])) <=> RootSeeded
    /\ \A i \in DOMAIN fileList :
         IF IsSyntheticRoot(fileList[i])
         THEN fileList[i].depth = 0
         ELSE /\ fileList[i].depth =
                   Cardinality(EmittedAncestors(fileList, fileList[i]))
                     + (IF RootSeeded THEN 1 ELSE 0)
              /\ \A j \in DOMAIN fileList :
                   (/\ fileList[j].kind = "folder"
                    /\ fileList[j].fullPath = ParentPath(fileList[i].fullPath)) =>
                     fileList[i].depth = fileList[j].depth + 1

C20_Witness ==
  /\ last.op = "buildFileList"
  /\ rootFolder = PathA
  /\ hideRoot
  /\ \E i, j \in DOMAIN fileList :
       /\ fileList[i].fullPath = PathAB /\ fileList[i].depth = 0
       /\ fileList[j].fullPath = PathAb /\ fileList[j].depth = 0
  /\ \A i \in DOMAIN fileList : fileList[i].fullPath # PathA

EntryIsHidden(entry, hidden) ==
  LET segments == Segments(NormalizedPath(entry.path))
  IN segments # <<>> /\ IsHiddenFile(NormalizedPath(entry.path), segments[Len(segments)], hidden)

\* C9: For any FileMap and hidden-pattern list, the output of the tree builder
\* contains no node whose fullPath is the path of a map entry that matches a
\* hidden pattern.
C9_NoNodeForHiddenEntry ==
  (last.op \in {"buildFileList", "filteredFileList"}) =>
    \A k \in DOMAIN files :
      EntryIsHidden(files[k], hiddenFiles) =>
        \A i \in DOMAIN fileList : fileList[i].fullPath # NormalizedPath(files[k].path)

(***************************************************************************)
(* The collapsed state                                                     *)
(***************************************************************************)
ExistingFoldersOf(fs) == FolderPathsOf(BuildFileList(fs, <<"/">>, FALSE, DEFAULT_HIDDEN_FILES))

ExistingFolders == ExistingFoldersOf(files)

\* C6: When a non-empty external collapsed list is supplied, once
\* reconciliation has run the collapsed set is exactly the set of currently
\* existing folders that are in the external list, also after any sequence of
\* user toggles and folder-set changes.  A pass that updates the set replaces
\* it (toggles included) by the listed folders of its node list, and when no
\* render and no pass is pending the set is the listed existing folders.
C6_ExternalListAuthoritative ==
  /\ (last.op = "effect" /\ Len(last.collapsed) > 0 /\ last.updated) =>
       collapsedFolders = {path \in FolderPathsOf(fileList) : path \in Range(last.collapsed)}
  /\ (Len(collapsed) > 0 /\ ~dirty /\ effect = None) =>
       collapsedFolders = {path \in ExistingFolders : path \in Range(collapsed)}

C6_Witness ==
  /\ last.op = "effect"
  /\ last.cause = "toggleCollapseState"
  /\ ~dirty
  /\ collapsed = <<PathAb, PathAB>>
  /\ collapsedFolders = {PathAb}
  /\ PathA \in ExistingFolders

\* C7: When no external collapsed list is supplied (or it is empty), each
\* reconciliation pass yields the previous collapsed set restricted to the
\* folders that still exist: stale entries are pruned, toggles of existing
\* folders are preserved, and afterwards the collapsed set is a subset of the
\* existing folder paths.  The folders that exist are those of the node list
\* the pass belongs to (folders, line 45).
C7_PruneKeepsExistingToggles ==
  [][(last'.op = "effect" /\ Len(last'.collapsed) = 0) =>
       /\ collapsedFolders' = collapsedFolders \cap FolderPathsOf(fileList)
       /\ collapsedFolders' \subseteq FolderPathsOf(fileList')]_vars

C7_Witness ==
  /\ last.op = "effect"
  /\ last.cause = "processEventBuffer"
  /\ last.updated
  /\ collapsed = <<>>
  /\ collapsedFolders = {PathA}
  /\ \E i \in DOMAIN applied : applied[i] = Ev("remove_dir", PathAb, None)
  /\ \E i \in DOMAIN applied : applied[i] = Ev("add_dir", PathAb, None)

\* C21: For any fixed external collapsed list and folder set, and from any
\* collapsed set, the reconciliation effect (which re-runs whenever the
\* collapsed set changes) reaches a fixed point: it performs at most one state
\* update and then every further pass skips the update because the recomputed
\* set is set-equal to the current one; it never loops forever.
\* Stated on finite runs: a pass after the first one updates nothing, a pass
\* that updates nothing leaves no render scheduled and the set at the fixed
\* point of the recomputation, and no run has a third pass.
C21_ReconcileReachesFixedPoint ==
  /\ (last.op = "effect" /\ last.passes > 1) => ~last.updated
  /\ (last.op = "effect" /\ ~last.updated) =>
       /\ ~dirty
       /\ SetsAreEqual(Reconcile(collapsed, ExistingFolders, collapsedFolders, collapsedFolders),
                       collapsedFolders)
  /\ (last.op \in {"render", "effect"}) => last.passes <= 2

C21_Witness ==
  /\ last.op = "effect"
  /\ last.passes = 2
  /\ ~dirty
  /\ collapsed = <<>>
  /\ collapsedFolders = {PathA}
  /\ ExistingFolders = {<<"/">>, PathA}

\* p is neither the directory P nor a path below it
OutsideDirectory(p, P) == p # P /\ ~StartsWith(p, P \o <<"/">>)

\* C22: A directory-removed event for path P leaves unchanged every FileMap
\* entry whose path is neither P nor a descendant of P (a path beginning with
\* P followed by '/'); in particular a sibling whose name merely starts with
\* the same characters (e.g. /src2 or /src.bak when /src is removed) keeps its
\* entry.
C22_RemoveDirKeepsOutsideEntries ==
  [][(/\ Len(applied') = Len(applied) + 1
      /\ applied'[Len(applied')].type = "remove_dir") =>
       \A k \in DOMAIN files :
         OutsideDirectory(files[k].path, SanitizedPath(applied'[Len(applied')].path)) =>
           (/\ HasKey(files', files[k].path)
            /\ Get(files', files[k].path) = files[k].dirent)]_vars

====
